---- MODULE Spec2Model ----
(***************************************************************************)
(* The editorial workflow state model of Indico's editing module:          *)
(* Editable, its revision log, the derived EditableState, the review       *)
(* condition matcher and the permission predicates                         *)
(* (src/indico/modules/events/editing/models/editable.py), together with   *)
(* the management handlers that change the type-scoped settings, the       *)
(* editor principals and the review conditions                             *)
(* (src/indico/modules/events/editing/controllers/backend/management.py).  *)
(*                                                                         *)
(* The log and the permissions of one editable of one type in one event    *)
(* are followed.  A revision is a row [created_dt, type, is_undone,        *)
(* files]; created_dt is the position in creation order, files is the set  *)
(* of file_type_id of its files.  The editables table and the file types   *)
(* of the event are tables of their own.                                   *)
(***************************************************************************)
EXTENDS Integers, Sequences, FiniteSets, TLC

VARIABLES
    revisions,          \* Editable.revisions: rows in creation order
    editor,             \* Editable.editor: a user or NoUser
    editing_manager,    \* users for whom event.can_manage(u, 'editing_manager')
    editor_permission,  \* users for whom event.can_manage(u, type.editor_permission)
    submitters,         \* users for whom contribution.can_submit_proceedings(u)
    associated,         \* users for whom contribution.is_user_associated(u)
    settings,           \* editable_type_settings[type] of the event
    review_conditions,  \* EditingReviewCondition rows of (event, type): sets of file type ids
    editables,          \* rows of the editables table: [contribution_id, type, is_deleted]
    editing_file_types, \* EditingFileType rows of the event: [id, publishable]
    response            \* outcome of the latest management request

vars == <<revisions, editor, editing_manager, editor_permission, submitters,
          associated, settings, review_conditions, editables, editing_file_types, response>>

logVars == <<revisions>>
permVars == <<editor, editing_manager, editor_permission, submitters, associated, settings>>
tableVars == <<editables, editing_file_types, response>>

----------------------------------------------------------------------------
(* Bounds *)

MaxRevisions == 2
MaxReviewRevisions == 1
MaxConditions == 2
MaxZeroRevisions == 1
NumUsers == 2
MaxEditables == 3
NumContributions == 1
MaxFileTypes == 2

----------------------------------------------------------------------------
(* Values *)

NoUser == 0
Users == 1..NumUsers
AnyUser == Users \cup {NoUser}

NoRevision == [created_dt |-> 0]
NoState == "None"

EditableState ==
    {"new", "ready_for_review", "needs_submitter_confirmation", "needs_submitter_changes",
     "accepted", "rejected", "accepted_submitter"}

RevisionType ==
    {"new", "ready_for_review", "needs_submitter_confirmation", "changes_acceptance",
     "changes_rejection", "needs_submitter_changes", "acceptance", "rejection",
     "replacement", "reset"}

\* the file types of the event (EditingFileType.id)
FileTypeIds == 1..4

\* the outcome of a call: a returned value or a raised exception
Returns(v) == [value |-> v]
Raises(e) == [exception |-> e]

\* EditableType
EditableType == {"paper", "slides", "poster"}

\* no request handled yet
NoResponse == [method |-> "", file_type_id |-> 0, outcome |-> Returns(0)]

\* the tables around the one editable whose log and permissions are followed: its
\* own row, and every file type id in use as a file type of the event
InitTables ==
    /\ editables = <<[contribution_id |-> 1, type |-> "paper", is_deleted |-> FALSE]>>
    /\ editing_file_types = {[id |-> i, publishable |-> TRUE] : i \in FileTypeIds}
    /\ response = NoResponse

\* the file sets of the revisions of the log specification: no file, or a file of type 1
LogFileSets == {{}, {1}}

----------------------------------------------------------------------------
(* Revision log *)

\* [r for r in self.revisions if not r.is_undone]
valid_revisions == SelectSeq(revisions, LAMBDA r : ~r.is_undone)

\* self.valid_revisions[-1] if self.valid_revisions else None
latest_revision ==
    IF valid_revisions # <<>> THEN valid_revisions[Len(valid_revisions)] ELSE NoRevision

\* the row of a non-empty set of rows that ORDER BY created_dt DESC puts first
FirstByCreatedDesc(rows) ==
    CHOOSE r \in rows : \A q \in rows : q.created_dt <= r.created_dt

\* the query without its join on the revision files
latest_revision_any_files ==
    LET rows == {revisions[i] : i \in DOMAIN revisions}
        joined == {r \in rows : ~r.is_undone}
    IN  IF joined = {} THEN NoRevision ELSE FirstByCreatedDesc(joined)

\* query.filter_by(editable=self, is_undone=False).join(EditingRevisionFile)
\*      .order_by(created_dt.desc()).first()
latest_revision_with_files ==
    LET rows == {revisions[i] : i \in DOMAIN revisions}
        joined == {r \in rows : ~r.is_undone /\ r.files # {}}
    IN  IF joined = {} THEN NoRevision ELSE FirstByCreatedDesc(joined)

----------------------------------------------------------------------------
(* State derivation *)

\* the db.case mapping without its table entry for reset
cases_no_reset ==
    ("new" :> "new") @@
    ("ready_for_review" :> "ready_for_review") @@
    ("needs_submitter_confirmation" :> "needs_submitter_confirmation") @@
    ("changes_acceptance" :> "accepted_submitter") @@
    ("changes_rejection" :> "needs_submitter_changes") @@
    ("needs_submitter_changes" :> "needs_submitter_changes") @@
    ("acceptance" :> "accepted") @@
    ("rejection" :> "rejected") @@
    ("replacement" :> "ready_for_review")

\* the db.case mapping RevisionType -> EditableState; a type without an entry yields NULL
cases ==
    ("new" :> "new") @@
    ("ready_for_review" :> "ready_for_review") @@
    ("needs_submitter_confirmation" :> "needs_submitter_confirmation") @@
    ("changes_acceptance" :> "accepted_submitter") @@
    ("changes_rejection" :> "needs_submitter_changes") @@
    ("needs_submitter_changes" :> "needs_submitter_changes") @@
    ("acceptance" :> "accepted") @@
    ("rejection" :> "rejected") @@
    ("replacement" :> "ready_for_review") @@
    ("reset" :> "ready_for_review")

\* the scalar subquery without its is_undone filter
state_counting_undone ==
    LET rows == {revisions[i] : i \in DOMAIN revisions}
    IN  IF rows = {} THEN NoState
        ELSE LET t == FirstByCreatedDesc(rows).type
             IN  IF t \in DOMAIN cases THEN cases[t] ELSE NoState

\* Editable.state: the scalar subquery over the non-undone rows, newest first, LIMIT 1
state ==
    LET rows == {revisions[i] : i \in DOMAIN revisions}
        selected == {r \in rows : ~r.is_undone}
    IN  IF selected = {} THEN NoState
        ELSE LET t == FirstByCreatedDesc(selected).type
             IN  IF t \in DOMAIN cases THEN cases[t] ELSE NoState

----------------------------------------------------------------------------
(* Revision actions: a revision is appended, or an existing one flagged undone *)

AppendRevision(type, files) ==
    /\ revisions' = Append(revisions,
                           [created_dt |-> Len(revisions) + 1, type |-> type,
                            is_undone |-> FALSE, files |-> files])

\* an undo that deletes the row instead of flagging it
UndoRevision_deleting(i) ==
    /\ i \in DOMAIN revisions
    /\ ~revisions[i].is_undone
    /\ revisions' = SubSeq(revisions, 1, i - 1) \o SubSeq(revisions, i + 1, Len(revisions))

UndoRevision(i) ==
    /\ i \in DOMAIN revisions
    /\ ~revisions[i].is_undone
    /\ revisions' = [revisions EXCEPT ![i].is_undone = TRUE]

InitDefaults ==
    /\ editor = NoUser
    /\ editing_manager = {}
    /\ editor_permission = {}
    /\ submitters = {}
    /\ associated = {}
    /\ settings = [editing_enabled |-> FALSE, self_assign_allowed |-> FALSE,
                   anonymous_team |-> FALSE]
    /\ review_conditions = {}
    /\ InitTables

InitLog ==
    /\ revisions = <<>>
    /\ InitDefaults

LogAppend ==
    /\ Len(revisions) < MaxRevisions
    /\ \E type \in RevisionType, files \in LogFileSets : AppendRevision(type, files)
    /\ UNCHANGED <<tableVars, permVars, review_conditions>>

LogUndo ==
    /\ \E i \in DOMAIN revisions : UndoRevision(i)
    /\ UNCHANGED <<tableVars, permVars, review_conditions>>

NextLog == LogAppend \/ LogUndo

SpecLog == InitLog /\ [][NextLog]_vars

----------------------------------------------------------------------------
(* Review condition matcher *)

\* the matcher with the superset test turned around
review_conditions_valid_subset ==
    IF review_conditions = {} THEN Returns(TRUE)
    ELSE IF latest_revision_with_files = NoRevision THEN Raises("AttributeError")
    ELSE LET file_types == latest_revision_with_files.files
         IN  Returns(\E cond \in review_conditions : file_types \subseteq cond)

\* the matcher reading the files before it looks at the conditions
review_conditions_valid_files_first ==
    IF latest_revision_with_files = NoRevision THEN Raises("AttributeError")
    ELSE IF review_conditions = {} THEN Returns(TRUE)
    ELSE LET file_types == latest_revision_with_files.files
         IN  Returns(\E cond \in review_conditions : cond \subseteq file_types)

\* Editable.review_conditions_valid; latest_revision_with_files is None when no
\* row matches, and None has no attribute files
review_conditions_valid ==
    IF review_conditions = {} THEN Returns(TRUE)
    ELSE IF latest_revision_with_files = NoRevision THEN Raises("AttributeError")
    ELSE LET file_types == latest_revision_with_files.files
         IN  Returns(\E cond \in review_conditions : cond \subseteq file_types)

\* RHEditingReviewConditions._process_POST
ReviewConditions_POST(file_types) ==
    LET full_file_types == {ft.id : ft \in editing_file_types} \cap file_types
    IN  review_conditions' = review_conditions \cup {full_file_types}

\* RHEditingEditReviewCondition._process_DELETE
EditReviewCondition_DELETE(condition) ==
    /\ condition \in review_conditions
    /\ review_conditions' = review_conditions \ {condition}

\* RHEditingEditReviewCondition._process_PATCH
EditReviewCondition_PATCH(condition, file_types) ==
    LET full_file_types == {ft.id : ft \in editing_file_types} \cap file_types
    IN  /\ condition \in review_conditions
        /\ review_conditions' = (review_conditions \ {condition}) \cup {full_file_types}

\* the file type lists EditingReviewConditionArgs lets through
ConditionArgs == (SUBSET FileTypeIds) \ {{}}

InitReview ==
    /\ revisions = <<>>
    /\ InitDefaults

ReviewCreateCondition ==
    /\ Cardinality(review_conditions) < MaxConditions
    /\ \E file_types \in ConditionArgs : ReviewConditions_POST(file_types)
    /\ UNCHANGED <<tableVars, revisions, permVars>>

ReviewDeleteCondition ==
    /\ \E condition \in review_conditions : EditReviewCondition_DELETE(condition)
    /\ UNCHANGED <<tableVars, revisions, permVars>>

ReviewUpdateCondition ==
    /\ \E condition \in review_conditions, file_types \in ConditionArgs :
            EditReviewCondition_PATCH(condition, file_types)
    /\ UNCHANGED <<tableVars, revisions, permVars>>

ReviewAppend ==
    /\ Len(revisions) < MaxReviewRevisions
    /\ \E files \in SUBSET FileTypeIds : AppendRevision("ready_for_review", files)
    /\ UNCHANGED <<tableVars, permVars, review_conditions>>

ReviewUndo ==
    /\ \E i \in DOMAIN revisions : UndoRevision(i)
    /\ UNCHANGED <<tableVars, permVars, review_conditions>>

NextReview ==
    \/ ReviewCreateCondition
    \/ ReviewDeleteCondition
    \/ ReviewUpdateCondition
    \/ ReviewAppend
    \/ ReviewUndo

SpecReview == InitReview /\ [][NextReview]_vars

----------------------------------------------------------------------------
(* Permission evaluator *)

\* event.can_manage(user, permission=...): never true of an absent user
can_manage(user, permission) ==
    /\ user # NoUser
    /\ \/ permission = "editing_manager" /\ user \in editing_manager
       \/ permission = "editor_permission" /\ user \in editor_permission

\* contribution.can_submit_proceedings(user)
can_submit_proceedings(user) == user # NoUser /\ user \in submitters

\* contribution.is_user_associated(user, check_abstract=True)
is_user_associated(user) == user # NoUser /\ user \in associated

\* editable_type_settings[self.type].get(self.event, name)
type_settings_get(name) == settings[name]

_has_general_editor_permissions(user) ==
    \/ can_manage(user, "editing_manager")
    \/ can_manage(user, "editor_permission")

can_see_timeline(user) ==
    \/ _has_general_editor_permissions(user)
    \/ can_submit_proceedings(user)
    \/ is_user_associated(user)

\* submitter actions refused while the editable has no valid revision
can_perform_submitter_actions_needing_revision(user) ==
    IF ~can_see_timeline(user) THEN FALSE
    ELSE IF latest_revision = NoRevision THEN FALSE
    ELSE can_submit_proceedings(user)

\* submitter actions granted to everyone who sees the timeline
can_perform_submitter_actions_for_viewers(user) ==
    IF ~can_see_timeline(user) THEN FALSE
    ELSE TRUE

can_perform_submitter_actions(user) ==
    IF ~can_see_timeline(user) THEN FALSE
    ELSE can_submit_proceedings(user)

\* editor actions with the editing_enabled gate ahead of the manager rule
can_perform_editor_actions_gate_first(user) ==
    IF ~can_see_timeline(user) THEN FALSE
    ELSE IF ~type_settings_get("editing_enabled") THEN FALSE
    ELSE IF editor = user /\ can_manage(user, "editing_manager") THEN TRUE
    ELSE IF editor = user /\ can_manage(user, "editor_permission") THEN TRUE
    ELSE FALSE

\* editor actions open to every editing manager, assigned or not
can_perform_editor_actions_any_manager(user) ==
    IF ~can_see_timeline(user) THEN FALSE
    ELSE IF can_manage(user, "editing_manager") THEN TRUE
    ELSE IF ~type_settings_get("editing_enabled") THEN FALSE
    ELSE IF editor = user /\ can_manage(user, "editor_permission") THEN TRUE
    ELSE FALSE

can_perform_editor_actions(user) ==
    IF ~can_see_timeline(user) THEN FALSE
    ELSE IF editor = user /\ can_manage(user, "editing_manager") THEN TRUE
    ELSE IF ~type_settings_get("editing_enabled") THEN FALSE
    ELSE IF editor = user /\ can_manage(user, "editor_permission") THEN TRUE
    ELSE FALSE

can_use_internal_comments(user) == _has_general_editor_permissions(user)

can_see_restricted_revisions(user) == _has_general_editor_permissions(user)

\* editor names shown to members only, whatever anonymous_team is
can_see_editor_names_ignoring_setting(user, actor) ==
    \/ (actor # NoUser /\ ~_has_general_editor_permissions(actor))
    \/ _has_general_editor_permissions(user)

\* editor names with the actor rule not negated
can_see_editor_names_actor_sees(user, actor) ==
    \/ ~type_settings_get("anonymous_team")
    \/ (actor # NoUser /\ _has_general_editor_permissions(actor))
    \/ _has_general_editor_permissions(user)

RECURSIVE can_see_editor_names(_, _)
can_see_editor_names(user, actor) ==
    \/ ~type_settings_get("anonymous_team")
    \/ (actor # NoUser /\ ~can_see_editor_names(actor, NoUser))
    \/ _has_general_editor_permissions(user)

can_comment(user) ==
    \/ can_manage(user, "editor_permission")
    \/ can_manage(user, "editing_manager")
    \/ is_user_associated(user)

\* unassignment that does not test whether the user is the assigned editor
can_unassign_any_editor(user) ==
    \/ can_manage(user, "editing_manager")
    \/ /\ can_manage(user, "editor_permission")
       /\ type_settings_get("editing_enabled")
       /\ type_settings_get("self_assign_allowed")

can_unassign(user) ==
    \/ can_manage(user, "editing_manager")
    \/ /\ editor = user
       /\ can_manage(user, "editor_permission")
       /\ type_settings_get("editing_enabled")
       /\ type_settings_get("self_assign_allowed")

\* self-assignment without the test that the editor is the user
can_assign_self_no_identity_test(user) ==
    IF editor # NoUser /\ ~can_unassign(user) THEN FALSE
    ELSE \/ /\ can_manage(user, "editor_permission")
            /\ type_settings_get("editing_enabled")
            /\ type_settings_get("self_assign_allowed")
         \/ can_manage(user, "editing_manager")

\* self-assignment that does not read self_assign_allowed
can_assign_self_no_setting(user) ==
    IF editor # NoUser /\ (editor = user \/ ~can_unassign(user)) THEN FALSE
    ELSE \/ /\ can_manage(user, "editor_permission")
            /\ type_settings_get("editing_enabled")
         \/ can_manage(user, "editing_manager")

\* self-assignment refused only to an assigned editor who cannot unassign
can_assign_self_takeover(user) ==
    IF editor # NoUser /\ (editor = user /\ ~can_unassign(user)) THEN FALSE
    ELSE \/ /\ can_manage(user, "editor_permission")
            /\ type_settings_get("editing_enabled")
            /\ type_settings_get("self_assign_allowed")
         \/ can_manage(user, "editing_manager")

can_assign_self(user) ==
    IF editor # NoUser /\ (editor = user \/ ~can_unassign(user)) THEN FALSE
    ELSE \/ /\ can_manage(user, "editor_permission")
            /\ type_settings_get("editing_enabled")
            /\ type_settings_get("self_assign_allowed")
         \/ can_manage(user, "editing_manager")

----------------------------------------------------------------------------
(* Management handlers of the type-scoped settings and the editor principals *)

\* editable_type_settings[self.editable_type].set(self.event, name, value)
type_settings_set(name, value) == settings' = [settings EXCEPT ![name] = value]

RHEditableSetSelfAssign_PUT == type_settings_set("self_assign_allowed", TRUE)
RHEditableSetSelfAssign_DELETE == type_settings_set("self_assign_allowed", FALSE)
RHEditableSetAnonymousTeam_PUT == type_settings_set("anonymous_team", TRUE)
RHEditableSetAnonymousTeam_DELETE == type_settings_set("anonymous_team", FALSE)
RHEditableSetEditing_PUT == type_settings_set("editing_enabled", TRUE)
RHEditableSetEditing_DELETE == type_settings_set("editing_enabled", FALSE)

RHEditableTypePrincipals_POST(principals) ==
    LET old_principals == editor_permission
    IN  editor_permission' =
            (editor_permission \cup (principals \ old_principals)) \ (old_principals \ principals)

\* an editor is assigned to the editable, or the assignment removed
AssignEditor(user) == editor' = user
UnassignEditor == editor # NoUser /\ editor' = NoUser

Init ==
    /\ revisions = <<>>
    /\ review_conditions = {}
    /\ InitTables
    /\ editor = NoUser
    /\ editor_permission = {}
    /\ settings = [editing_enabled |-> FALSE, self_assign_allowed |-> FALSE,
                   anonymous_team |-> FALSE]
    /\ editing_manager \in SUBSET Users
    /\ submitters \in SUBSET Users
    /\ associated \in SUBSET Users

SetSelfAssignOn ==
    /\ RHEditableSetSelfAssign_PUT
    /\ UNCHANGED <<tableVars, revisions, review_conditions, editor, editing_manager, editor_permission,
                   submitters, associated>>

SetSelfAssignOff ==
    /\ RHEditableSetSelfAssign_DELETE
    /\ UNCHANGED <<tableVars, revisions, review_conditions, editor, editing_manager, editor_permission,
                   submitters, associated>>

SetAnonymousTeamOn ==
    /\ RHEditableSetAnonymousTeam_PUT
    /\ UNCHANGED <<tableVars, revisions, review_conditions, editor, editing_manager, editor_permission,
                   submitters, associated>>

SetAnonymousTeamOff ==
    /\ RHEditableSetAnonymousTeam_DELETE
    /\ UNCHANGED <<tableVars, revisions, review_conditions, editor, editing_manager, editor_permission,
                   submitters, associated>>

SetEditingOn ==
    /\ RHEditableSetEditing_PUT
    /\ UNCHANGED <<tableVars, revisions, review_conditions, editor, editing_manager, editor_permission,
                   submitters, associated>>

SetEditingOff ==
    /\ RHEditableSetEditing_DELETE
    /\ UNCHANGED <<tableVars, revisions, review_conditions, editor, editing_manager, editor_permission,
                   submitters, associated>>

SetPrincipals ==
    /\ \E principals \in SUBSET Users : RHEditableTypePrincipals_POST(principals)
    /\ UNCHANGED <<tableVars, revisions, review_conditions, editor, editing_manager, settings,
                   submitters, associated>>

Assign ==
    /\ \E user \in Users : AssignEditor(user)
    /\ UNCHANGED <<tableVars, revisions, review_conditions, editing_manager, editor_permission, settings,
                   submitters, associated>>

Unassign ==
    /\ UnassignEditor
    /\ UNCHANGED <<tableVars, revisions, review_conditions, editing_manager, editor_permission, settings,
                   submitters, associated>>

Next ==
    \/ SetSelfAssignOn
    \/ SetSelfAssignOff
    \/ SetAnonymousTeamOn
    \/ SetAnonymousTeamOff
    \/ SetEditingOn
    \/ SetEditingOff
    \/ SetPrincipals
    \/ Assign
    \/ Unassign

Spec == Init /\ [][Next]_vars

----------------------------------------------------------------------------
(* The revision log of an editable under each assignment of roles to one user *)

InitZero ==
    /\ revisions = <<>>
    /\ review_conditions = {}
    /\ InitTables
    /\ editor \in AnyUser
    /\ editing_manager \in SUBSET {1}
    /\ editor_permission \in SUBSET {1}
    /\ submitters \in SUBSET {1}
    /\ associated \in SUBSET {1}
    /\ \E enabled \in BOOLEAN :
          settings = [editing_enabled |-> enabled, self_assign_allowed |-> FALSE,
                      anonymous_team |-> FALSE]

ZeroAppend ==
    /\ Len(revisions) < MaxZeroRevisions
    /\ \E type \in RevisionType : AppendRevision(type, {})
    /\ UNCHANGED <<tableVars, permVars, review_conditions>>

ZeroUndo ==
    /\ \E i \in DOMAIN revisions : UndoRevision(i)
    /\ UNCHANGED <<tableVars, permVars, review_conditions>>

NextZero == ZeroAppend \/ ZeroUndo

SpecZero == InitZero /\ [][NextZero]_vars

----------------------------------------------------------------------------
(* The editables table *)

Contributions == 1..NumContributions

\* an index on (contribution_id, type) that is not unique
editables_index_not_unique(rows) == TRUE

\* db.Index(None, 'contribution_id', 'type', unique=True, postgresql_where='NOT is_deleted'):
\* whether the table accepts the rows
editables_index(rows) ==
    \A i, j \in DOMAIN rows :
        (i # j /\ ~rows[i].is_deleted /\ ~rows[j].is_deleted) =>
            <<rows[i].contribution_id, rows[i].type>> # <<rows[j].contribution_id, rows[j].type>>

\* an Editable is inserted with is_deleted at its default; the insert is rolled
\* back when the index refuses it
CreateEditable(contribution_id, type) ==
    LET inserted == Append(editables, [contribution_id |-> contribution_id, type |-> type,
                                       is_deleted |-> FALSE])
    IN  editables' = IF editables_index(inserted) THEN inserted ELSE editables

\* an Editable is soft-deleted
DeleteEditable(i) ==
    /\ i \in DOMAIN editables
    /\ ~editables[i].is_deleted
    /\ editables' = [editables EXCEPT ![i].is_deleted = TRUE]

InitEditables ==
    /\ revisions = <<>>
    /\ editor = NoUser
    /\ editing_manager = {}
    /\ editor_permission = {}
    /\ submitters = {}
    /\ associated = {}
    /\ settings = [editing_enabled |-> FALSE, self_assign_allowed |-> FALSE,
                   anonymous_team |-> FALSE]
    /\ review_conditions = {}
    /\ editables = <<>>
    /\ editing_file_types = {[id |-> i, publishable |-> TRUE] : i \in FileTypeIds}
    /\ response = NoResponse

EditablesCreate ==
    /\ Len(editables) < MaxEditables
    /\ \E contribution_id \in Contributions, type \in EditableType :
            CreateEditable(contribution_id, type)
    /\ UNCHANGED <<revisions, permVars, review_conditions, editing_file_types, response>>

EditablesDelete ==
    /\ \E i \in DOMAIN editables : DeleteEditable(i)
    /\ UNCHANGED <<revisions, permVars, review_conditions, editing_file_types, response>>

NextEditables == EditablesCreate \/ EditablesDelete

SpecEditables == InitEditables /\ [][NextEditables]_vars

----------------------------------------------------------------------------
(* File types of the event *)

\* the response of a request that is not a file type DELETE
Responded(method, status) == [method |-> method, file_type_id |-> 0, outcome |-> Returns(status)]

\* EditingRevisionFile.query.with_parent(file_type).has_rows()
has_revision_files(file_type) ==
    \E i \in DOMAIN revisions : file_type.id \in revisions[i].files

\* file_type.review_conditions
file_type_review_conditions(file_type) ==
    {cond \in review_conditions : file_type.id \in cond}

\* RHCreateFileType._process
RHCreateFileType(id, publishable) ==
    /\ id \notin {ft.id : ft \in editing_file_types}
    /\ editing_file_types' = editing_file_types \cup {[id |-> id, publishable |-> publishable]}
    /\ response' = Responded("POST", 200)

\* the DELETE handler without the test for the last publishable file type
RHEditFileType_DELETE_no_last_test(file_type) ==
    /\ file_type \in editing_file_types
    /\ IF has_revision_files(file_type)
       THEN /\ response' = [method |-> "DELETE", file_type_id |-> file_type.id,
                            outcome |-> Raises("UserValueError")]
            /\ UNCHANGED editing_file_types
       ELSE IF file_type_review_conditions(file_type) # {}
       THEN /\ response' = [method |-> "DELETE", file_type_id |-> file_type.id,
                            outcome |-> Raises("UserValueError")]
            /\ UNCHANGED editing_file_types
       ELSE /\ editing_file_types' = editing_file_types \ {file_type}
            /\ response' = [method |-> "DELETE", file_type_id |-> file_type.id,
                            outcome |-> Returns(204)]

\* RHEditFileType._process_DELETE; a raised UserValueError leaves the tables as they were
RHEditFileType_DELETE(file_type) ==
    /\ file_type \in editing_file_types
    /\ IF has_revision_files(file_type)
       THEN /\ response' = [method |-> "DELETE", file_type_id |-> file_type.id,
                            outcome |-> Raises("UserValueError")]
            /\ UNCHANGED editing_file_types
       ELSE IF file_type_review_conditions(file_type) # {}
       THEN /\ response' = [method |-> "DELETE", file_type_id |-> file_type.id,
                            outcome |-> Raises("UserValueError")]
            /\ UNCHANGED editing_file_types
       ELSE LET is_last == file_type.publishable /\
                           ~\E other \in editing_file_types :
                                other.publishable /\ other.id # file_type.id
            IN  IF is_last
                THEN /\ response' = [method |-> "DELETE", file_type_id |-> file_type.id,
                                     outcome |-> Raises("UserValueError")]
                     /\ UNCHANGED editing_file_types
                ELSE /\ editing_file_types' = editing_file_types \ {file_type}
                     /\ response' = [method |-> "DELETE", file_type_id |-> file_type.id,
                                     outcome |-> Returns(204)]

InitFileTypes ==
    /\ revisions = <<>>
    /\ editor = NoUser
    /\ editing_manager = {}
    /\ editor_permission = {}
    /\ submitters = {}
    /\ associated = {}
    /\ settings = [editing_enabled |-> FALSE, self_assign_allowed |-> FALSE,
                   anonymous_team |-> FALSE]
    /\ review_conditions = {}
    /\ editables = <<[contribution_id |-> 1, type |-> "paper", is_deleted |-> FALSE]>>
    /\ editing_file_types = {}
    /\ response = NoResponse

FileTypesCreate ==
    /\ \E id \in 1..MaxFileTypes, publishable \in BOOLEAN : RHCreateFileType(id, publishable)
    /\ UNCHANGED <<revisions, permVars, review_conditions, editables>>

FileTypesDelete ==
    /\ \E file_type \in editing_file_types : RHEditFileType_DELETE(file_type)
    /\ UNCHANGED <<revisions, permVars, review_conditions, editables>>

FileTypesCreateCondition ==
    /\ Cardinality(review_conditions) < MaxConditions
    /\ \E file_types \in (SUBSET {ft.id : ft \in editing_file_types}) \ {{}} :
            ReviewConditions_POST(file_types)
    /\ response' = Responded("POST", 204)
    /\ UNCHANGED <<revisions, permVars, editables, editing_file_types>>

FileTypesDeleteCondition ==
    /\ \E condition \in review_conditions : EditReviewCondition_DELETE(condition)
    /\ response' = Responded("DELETE", 204)
    /\ UNCHANGED <<revisions, permVars, editables, editing_file_types>>

FileTypesAppend ==
    /\ Len(revisions) < MaxReviewRevisions
    /\ \E ft \in editing_file_types : AppendRevision("ready_for_review", {ft.id})
    /\ response' = Responded("POST", 200)
    /\ UNCHANGED <<permVars, review_conditions, editables, editing_file_types>>

FileTypesUndo ==
    /\ \E i \in DOMAIN revisions : UndoRevision(i)
    /\ response' = Responded("POST", 200)
    /\ UNCHANGED <<permVars, review_conditions, editables, editing_file_types>>

NextFileTypes ==
    \/ FileTypesCreate
    \/ FileTypesDelete
    \/ FileTypesCreateCondition
    \/ FileTypesDeleteCondition
    \/ FileTypesAppend
    \/ FileTypesUndo

SpecFileTypes == InitFileTypes /\ [][NextFileTypes]_vars

----------------------------------------------------------------------------
(* Reference notions the properties are stated with *)

ValidIndexes == {i \in DOMAIN revisions : ~revisions[i].is_undone}

Newest(S) == CHOOSE i \in S : \A j \in S : j <= i

\* the table of section 4.2, written out
TableState(t) ==
    CASE t = "new" -> "new"
      [] t = "ready_for_review" -> "ready_for_review"
      [] t = "needs_submitter_confirmation" -> "needs_submitter_confirmation"
      [] t = "changes_acceptance" -> "accepted_submitter"
      [] t = "changes_rejection" -> "needs_submitter_changes"
      [] t = "needs_submitter_changes" -> "needs_submitter_changes"
      [] t = "acceptance" -> "accepted"
      [] t = "rejection" -> "rejected"
      [] t = "replacement" -> "ready_for_review"
      [] t = "reset" -> "ready_for_review"
      [] OTHER -> NoState

----------------------------------------------------------------------------
(* Properties of the revision log and the state derivation (SpecLog) *)

\* C1: with at least one non-undone revision, Editable.state is the fixed table
\* applied to the type of the latest non-undone revision, and the table has an
\* entry for each of the ten revision types.
C1_StateIsTableOfLatest ==
    /\ \A t \in RevisionType : t \in DOMAIN cases /\ cases[t] \in EditableState
    /\ ValidIndexes # {} =>
            /\ state \in EditableState
            /\ state = TableState(revisions[Newest(ValidIndexes)].type)

C1_Witness ==
    /\ Len(revisions) = 2
    /\ ValidIndexes = {1}
    /\ revisions[1].type = "reset"
    /\ revisions[2].type = "rejection"
    /\ state = "ready_for_review"

\* the revision valid before revision k, as an index, 0 if there is none
PreviousValid(k) ==
    LET S == {i \in ValidIndexes : i < k}
    IN  IF S = {} THEN 0 ELSE Newest(S)

\* the step relation of C2
UndoneInvisibleStep ==
    /\ LET V == {i \in DOMAIN revisions' : ~revisions'[i].is_undone}
       IN  IF V = {} THEN state' = NoState /\ latest_revision' = NoRevision
           ELSE /\ state' = TableState(revisions'[Newest(V)].type)
                /\ latest_revision' = revisions'[Newest(V)]
    /\ \A k \in ValidIndexes :
          (revisions' = [revisions EXCEPT ![k].is_undone = TRUE]) =>
              IF k # Newest(ValidIndexes)
              THEN state' = state /\ latest_revision' = latest_revision
              ELSE IF PreviousValid(k) = 0
              THEN state' = NoState /\ latest_revision' = NoRevision
              ELSE /\ state' = TableState(revisions[PreviousValid(k)].type)
                   /\ latest_revision' = revisions[PreviousValid(k)]

\* C2: over any sequence of append and undo steps, state and latest_revision are
\* those of the most recently created revision that is not undone, and undoing
\* the newest such revision makes both fall back to the previous one.
C2_UndoneRevisionsInvisible == [][UndoneInvisibleStep]_vars

C2_Witness ==
    /\ Len(revisions) = 2
    /\ revisions[1].type = "ready_for_review" /\ ~revisions[1].is_undone
    /\ revisions[2].type = "acceptance" /\ revisions[2].is_undone
    /\ state = "ready_for_review"
    /\ latest_revision = revisions[1]

\* C4: valid_revisions is exactly the revisions that are not undone, oldest first;
\* latest_revision is its last element or absent; latest_revision_with_files is the
\* most recently created revision that is not undone and has a file, or absent.
C4_RevisionLogViews ==
    /\ Len(valid_revisions) = Cardinality(ValidIndexes)
    /\ \A i \in ValidIndexes : \E n \in DOMAIN valid_revisions : valid_revisions[n] = revisions[i]
    /\ \A n \in DOMAIN valid_revisions : ~valid_revisions[n].is_undone
    /\ \A n, m \in DOMAIN valid_revisions :
            n < m => valid_revisions[n].created_dt < valid_revisions[m].created_dt
    /\ latest_revision =
            IF ValidIndexes = {} THEN NoRevision ELSE revisions[Newest(ValidIndexes)]
    /\ LET F == {i \in ValidIndexes : revisions[i].files # {}}
       IN  latest_revision_with_files = IF F = {} THEN NoRevision ELSE revisions[Newest(F)]

C4_Witness ==
    /\ Len(revisions) = 2
    /\ revisions[1].files # {} /\ ~revisions[1].is_undone
    /\ revisions[2].files = {} /\ ~revisions[2].is_undone
    /\ Len(valid_revisions) = 2
    /\ latest_revision = revisions[2]
    /\ latest_revision_with_files = revisions[1]

----------------------------------------------------------------------------
(* Properties of the review condition matcher (SpecReview) *)

\* C5: with review conditions configured and a revision with files present,
\* review_conditions_valid returns true iff the file type ids of
\* latest_revision_with_files are a superset of at least one configured set; with
\* conditions {{1,2},{3}} the files {3,4} give true and the files {1,4} give false.
C5_SupersetOfSomeCondition ==
    /\ (review_conditions # {} /\ latest_revision_with_files = NoRevision) =>
            review_conditions_valid # Returns(TRUE)
    /\ (review_conditions # {} /\ latest_revision_with_files # NoRevision) =>
            /\ review_conditions_valid =
                   Returns(\E cond \in review_conditions :
                              \A id \in cond : id \in latest_revision_with_files.files)
            /\ review_conditions = {{1, 2}, {3}} =>
                   /\ latest_revision_with_files.files = {3, 4} => review_conditions_valid = Returns(TRUE)
                   /\ latest_revision_with_files.files = {1, 4} => review_conditions_valid = Returns(FALSE)

C5_Witness ==
    /\ review_conditions = {{1, 2}, {3}}
    /\ latest_revision_with_files # NoRevision
    /\ latest_revision_with_files.files = {1, 4}
    /\ review_conditions_valid = Returns(FALSE)

\* C6: with at least one review condition configured and no non-undone revision
\* with files, review_conditions_valid returns a boolean, false for non-empty
\* required sets, and raises nothing.
C6_AbsentRevisionGivesFalse ==
    (review_conditions # {} /\ latest_revision_with_files = NoRevision) =>
        review_conditions_valid = Returns(\E cond \in review_conditions : cond = {})

\* C7: with zero review conditions configured review_conditions_valid returns true,
\* for every file set and also without any revision with files.
C7_NoConditionsIsValid ==
    review_conditions = {} => review_conditions_valid = Returns(TRUE)

C7_Witness ==
    /\ review_conditions = {}
    /\ Len(revisions) = 1
    /\ revisions[1].is_undone
    /\ revisions[1].files # {}
    /\ latest_revision_with_files = NoRevision
    /\ review_conditions_valid = Returns(TRUE)

----------------------------------------------------------------------------
(* Properties of an editable without valid revisions (SpecZero) *)

ZeroValidRevisions == \A i \in DOMAIN revisions : revisions[i].is_undone

\* the state part of C3
ZeroValidIsAbsent ==
    ZeroValidRevisions =>
        /\ state = NoState
        /\ latest_revision = NoRevision
        /\ \A user \in AnyUser :
              /\ can_perform_submitter_actions(user) \in BOOLEAN
              /\ can_perform_editor_actions(user) \in BOOLEAN

\* the step part of C3
RevisionStepKeepsPredicates ==
    permVars' = permVars =>
        \A user \in AnyUser :
            /\ can_perform_submitter_actions(user)' = can_perform_submitter_actions(user)
            /\ can_perform_editor_actions(user)' = can_perform_editor_actions(user)

\* C3: an editable with zero valid revisions (none, or all undone) has no state and
\* no latest_revision, while can_perform_submitter_actions and
\* can_perform_editor_actions are booleans that a change of the revision log alone
\* never changes.
C3_ZeroRevisionsRolesOnly == []ZeroValidIsAbsent /\ [][RevisionStepKeepsPredicates]_vars

C3_Witness ==
    /\ Len(revisions) = 1
    /\ revisions[1].is_undone
    /\ state = NoState
    /\ latest_revision = NoRevision
    /\ editor = 1
    /\ can_perform_submitter_actions(1)
    /\ can_perform_editor_actions(1)

----------------------------------------------------------------------------
(* Properties of the permission evaluator (Spec) *)

IsAssignedEditor(user) == editor # NoUser /\ editor = user

\* C8: can_perform_editor_actions is false without timeline visibility; otherwise
\* true for the assigned editor holding editing_manager, whatever editing_enabled
\* is; otherwise true iff editing_enabled and the user is the assigned editor and
\* holds the type's editor permission.
C8_EditorActions ==
    \A user \in AnyUser :
        can_perform_editor_actions(user) =
            IF ~can_see_timeline(user) THEN FALSE
            ELSE IF IsAssignedEditor(user) /\ user \in editing_manager THEN TRUE
            ELSE /\ settings.editing_enabled
                 /\ IsAssignedEditor(user)
                 /\ user \in editor_permission

C8_Witness ==
    /\ editor = 1
    /\ 1 \in editing_manager
    /\ 1 \notin editor_permission
    /\ ~settings.editing_enabled
    /\ can_perform_editor_actions(1)

\* C9: can_assign_self is false for the user who is the assigned editor, whatever
\* the user's permissions and the settings are.
C9_NoSelfAssignWhenAssigned ==
    \A user \in AnyUser : IsAssignedEditor(user) => ~can_assign_self(user)

C9_Witness ==
    /\ editor = 1
    /\ 1 \in editing_manager
    /\ 1 \in editor_permission
    /\ settings.editing_enabled
    /\ settings.self_assign_allowed
    /\ ~can_assign_self(1)

\* C10: can_assign_self is false if an editor is assigned and that editor is the
\* user or the user cannot unassign; in every other case it is true iff the user
\* holds the type's editor permission with editing_enabled and self_assign_allowed
\* set, or holds editing_manager.
C10_AssignSelf ==
    \A user \in AnyUser :
        can_assign_self(user) =
            IF editor # NoUser /\ (editor = user \/ ~can_unassign(user)) THEN FALSE
            ELSE \/ /\ user \in editor_permission
                    /\ settings.editing_enabled
                    /\ settings.self_assign_allowed
                 \/ user \in editing_manager

C10_Witness ==
    /\ editor = 2
    /\ 1 \in editing_manager
    /\ can_assign_self(1)
    /\ 2 \in editor_permission
    /\ settings.editing_enabled
    /\ settings.self_assign_allowed
    /\ ~can_assign_self(2)

\* C11: can_unassign is true iff the user holds editing_manager, or is the assigned
\* editor holding the type's editor permission with editing_enabled and
\* self_assign_allowed set; a non-manager never unassigns another user.
C11_Unassign ==
    \A user \in AnyUser :
        /\ can_unassign(user) =
              \/ user \in editing_manager
              \/ /\ IsAssignedEditor(user)
                 /\ user \in editor_permission
                 /\ settings.editing_enabled
                 /\ settings.self_assign_allowed
        /\ (user \notin editing_manager /\ editor # NoUser /\ editor # user) => ~can_unassign(user)

C11_Witness ==
    /\ editor = 2
    /\ editing_manager = {}
    /\ editor_permission = {1, 2}
    /\ settings.editing_enabled
    /\ settings.self_assign_allowed
    /\ can_unassign(2)
    /\ ~can_unassign(1)

\* C12: with anonymous_team off, can_see_editor_names is true for every user and
\* every actor, absent ones included.
C12_NamesVisibleWithoutAnonymity ==
    ~settings.anonymous_team =>
        \A user \in AnyUser, actor \in AnyUser : can_see_editor_names(user, actor)

C12_Witness ==
    /\ ~settings.anonymous_team
    /\ editing_manager = {}
    /\ editor_permission = {2}
    /\ can_see_editor_names(1, 2)
    /\ can_see_editor_names(NoUser, NoUser)

\* C13: with anonymous_team on, can_see_editor_names(user, actor) is true iff the
\* user has general editor permissions, or an actor is given for whom
\* can_see_editor_names without actor is false, that is an actor without general
\* editor permissions.
C13_NamesUnderAnonymity ==
    settings.anonymous_team =>
        \A user \in AnyUser, actor \in AnyUser :
            /\ can_see_editor_names(user, actor) =
                  \/ user \in editing_manager \cup editor_permission
                  \/ actor # NoUser /\ ~can_see_editor_names(actor, NoUser)
            /\ can_see_editor_names(user, NoUser) = (user \in editing_manager \cup editor_permission)
            /\ can_see_editor_names(user, actor) =
                  \/ user \in editing_manager \cup editor_permission
                  \/ actor # NoUser /\ actor \notin editing_manager \cup editor_permission

C13_Witness ==
    /\ settings.anonymous_team
    /\ editing_manager = {}
    /\ editor_permission = {2}
    /\ ~can_see_editor_names(1, 2)
    /\ ~can_see_editor_names(1, NoUser)
    /\ can_see_editor_names(1, 1)
    /\ can_see_editor_names(2, 2)

\* C14: can_see_timeline is true iff the user has general editor permissions, can
\* submit proceedings or is associated with the contribution;
\* can_perform_submitter_actions is true iff the user sees the timeline and can
\* submit proceedings, so a user who is only associated or only an editor views
\* without performing submitter actions.
C14_TimelineAndSubmitterActions ==
    \A user \in AnyUser :
        /\ can_see_timeline(user) =
              \/ user \in editing_manager
              \/ user \in editor_permission
              \/ user \in submitters
              \/ user \in associated
        /\ can_perform_submitter_actions(user) = (can_see_timeline(user) /\ user \in submitters)
        /\ (user \in (associated \cup editing_manager \cup editor_permission) \ submitters) =>
              can_see_timeline(user) /\ ~can_perform_submitter_actions(user)

C14_Witness ==
    /\ associated = {1}
    /\ submitters = {}
    /\ editing_manager = {}
    /\ editor_permission = {2}
    /\ can_see_timeline(1) /\ ~can_perform_submitter_actions(1)
    /\ can_see_timeline(2) /\ ~can_perform_submitter_actions(2)
    /\ ~can_see_timeline(NoUser)

----------------------------------------------------------------------------
(* Append-only revision log (SpecLog) *)

\* the step relation of C15
AppendOnlyStep ==
    /\ Len(revisions') >= Len(revisions)
    /\ \A i \in DOMAIN revisions :
          /\ revisions'[i].created_dt = revisions[i].created_dt
          /\ revisions'[i].type = revisions[i].type
          /\ revisions'[i].files = revisions[i].files
          /\ revisions'[i] = [revisions[i] EXCEPT !.is_undone = revisions'[i].is_undone]

\* C15: over any sequence of submit, editor and undo steps no revision leaves the
\* log, and the type, the files and the creation order of an existing revision
\* never change; only is_undone may change.
C15_LogAppendOnly == [][AppendOnlyStep]_vars

C15_Witness ==
    /\ Len(revisions) = 2
    /\ revisions[1].is_undone /\ revisions[1].created_dt = 1
    /\ revisions[1].type = "acceptance" /\ revisions[1].files = {1}
    /\ ~revisions[2].is_undone /\ revisions[2].created_dt = 2
    /\ revisions[2].type = "ready_for_review"

----------------------------------------------------------------------------
(* Further properties of the permission evaluator (Spec) *)

\* C18: whoever can perform editor actions is the assigned editor and has general
\* editor permissions; nobody, not even an editing manager, can perform them on
\* an editable without editor or with another editor.
C18_EditorActionsOnlyForAssignedEditor ==
    \A user \in AnyUser :
        /\ can_perform_editor_actions(user) =>
              /\ editor # NoUser
              /\ editor = user
              /\ user \in editing_manager \cup editor_permission
        /\ (editor = NoUser \/ editor # user) => ~can_perform_editor_actions(user)

C18_Witness ==
    /\ editor = 2
    /\ editing_manager = {1}
    /\ editor_permission = {2}
    /\ settings.editing_enabled
    /\ ~can_perform_editor_actions(1)
    /\ can_perform_editor_actions(2)

\* C19: with an editor assigned who is not the requester, can_assign_self is true
\* iff the requester holds editing_manager; the type's editor permission alone
\* never lets a user take over, whatever the settings are.
C19_TakeoverOnlyByManager ==
    \A user \in AnyUser :
        (editor # NoUser /\ editor # user) =>
            /\ can_assign_self(user) = (user \in editing_manager)
            /\ (user \in editor_permission \ editing_manager) => ~can_assign_self(user)

C19_Witness ==
    /\ editor = 1
    /\ editing_manager = {}
    /\ editor_permission = {1, 2}
    /\ settings.editing_enabled
    /\ settings.self_assign_allowed
    /\ ~can_assign_self(2)

----------------------------------------------------------------------------
(* Uniqueness of the editable of a contribution and type (SpecEditables) *)

\* C16: in every reachable state of creations and soft-deletions at most one
\* editable that is not deleted exists per (contribution, type); soft-deleted
\* editables of the same pair may stand next to it.
C16_OneLiveEditablePerPair ==
    \A contribution_id \in Contributions, type \in EditableType :
        Cardinality({i \in DOMAIN editables :
                        /\ editables[i].contribution_id = contribution_id
                        /\ editables[i].type = type
                        /\ ~editables[i].is_deleted}) <= 1

C16_Witness ==
    /\ Len(editables) = 3
    /\ \A i \in 1..3 : editables[i].contribution_id = 1 /\ editables[i].type = "slides"
    /\ editables[1].is_deleted
    /\ editables[2].is_deleted
    /\ ~editables[3].is_deleted

----------------------------------------------------------------------------
(* Deletion of a file type (SpecFileTypes) *)

\* the file type has revision files, is used in a review condition, or is the
\* only publishable file type of the event
DeleteRefused(ft) ==
    \/ \E i \in DOMAIN revisions : ft.id \in revisions[i].files
    \/ \E cond \in review_conditions : ft.id \in cond
    \/ ft.publishable /\ {o \in editing_file_types : o.publishable} = {ft}

\* the step part of C20
FileTypeDeleteStep ==
    /\ \A ft \in editing_file_types :
          (response'.method = "DELETE" /\ response'.file_type_id = ft.id) =>
              IF DeleteRefused(ft)
              THEN /\ response'.outcome = Raises("UserValueError")
                   /\ editing_file_types' = editing_file_types
              ELSE /\ response'.outcome = Returns(204)
                   /\ editing_file_types' = editing_file_types \ {ft}
    /\ \A ft \in editing_file_types \ editing_file_types' :
          /\ ~DeleteRefused(ft)
          /\ ft.publishable => \E o \in editing_file_types' : o.publishable

\* the state part of C20: files and review conditions refer to existing file types
FileTypeReferencesExist ==
    LET ids == {ft.id : ft \in editing_file_types}
    IN  /\ \A i \in DOMAIN revisions : revisions[i].files \subseteq ids
        /\ \A cond \in review_conditions : cond \subseteq ids

\* C20: the file type DELETE fails with a user error and leaves the file type in
\* place when it has revision files, is used in a review condition, or is the only
\* publishable file type of the event; otherwise it deletes it.  So no deletion
\* removes the only publishable file type or one that files or conditions refer to.
C20_FileTypeDelete == []FileTypeReferencesExist /\ [][FileTypeDeleteStep]_vars

C20_Witness ==
    /\ response = [method |-> "DELETE", file_type_id |-> 1, outcome |-> Raises("UserValueError")]
    /\ editing_file_types = {[id |-> 1, publishable |-> TRUE], [id |-> 2, publishable |-> FALSE]}
    /\ revisions = <<>>
    /\ review_conditions = {}

====
